---- MODULE Spec2Model ----
(***************************************************************************)
(* WriteBufferToRabbitMQProducer                                           *)
(* (src/src/Storages/RabbitMQ/WriteBufferToRabbitMQProducer.cpp).          *)
(*                                                                         *)
(* One producer instance driven by one calling thread: the constructor,   *)
(* write(), countRow(), checkExchange(), finilizeProducer() and the        *)
(* destructor.  The broker side (connection, channel, event loop) is the   *)
(* environment: it decides, inside a loop pump, whether the connection     *)
(* becomes ready and whether a pending confirmation is delivered.          *)
(*                                                                         *)
(* Strings of payload bytes are sequences of byte values; names and        *)
(* routing keys are TLA+ strings.                                          *)
(***************************************************************************)
EXTENDS Integers, Sequences, FiniteSets, TLC

(***************************************************************************)
(* Program constants: the anonymous enum of the source.                    *)
(***************************************************************************)
Connection_setup_sleep == 200
Loop_retries_max == 1000
Loop_wait == 10
Batch == 10000

(***************************************************************************)
(* Bounds of the exploration.                                              *)
(***************************************************************************)
\* largest rows_per_message explored
MaxRows == 2
\* largest chunk_size explored
MaxChunk == 3
\* largest num_queues explored
MaxQueues == 3
\* most bytes written between two batch boundaries (payload scenario)
MaxBatchBytes == 4
\* most bytes handed to one write() call
MaxWrite == 2
\* most row-boundary signals in the payload scenario
MaxSignals == 4
\* row-boundary signals in the routing scenario beyond two full rotations
ExtraSignals == 1
\* row-boundary signals in the long-run scenario beyond one Batch
LongExtra == 2
\* the retry counters are explored up to Loop_retries_max + RetrySlack
RetrySlack == 1

\* the byte values written: ';' and 'a'
Bytes == {59, 97}
\* std::optional<char> without a value
NoDelim == -1
\* the delimiters explored: none, or ';'
Delims == {NoDelim, 59}
\* the value std::string::resize fills a new chunk with
Fill == 0
\* no publish call was issued
NoPublish == [exchange |-> "", key |-> "", payload |-> <<-1>>]

VARIABLES
    \* what is explored in depth in this behaviour: "payload", "routing",
    \* "lifecycle" or "longrun"
    scenario,
    \* constructor arguments, fixed for the instance's lifetime
    routing_key, exchange_name, num_queues, bind_by_id,
    use_transactional_channel, delim, max_rows, chunk_size,
    \* the chunked row buffer: rows, chunks, and the WriteBuffer base class's
    \* working buffer (its size, and pos as an offset into it)
    rows, chunks, working_buffer_size, pos,
    \* routing and checkpoint counters
    next_queue, message_counter,
    \* position of the calling thread, and the caller checkExchange returns to
    pc, ret,
    \* locals of the constructor, checkExchange and finilizeProducer
    cnt_retries, exchange_declared, exchange_error, answer_received,
    count_retries,
    \* the broker side: connection state, and the fate of the passive
    \* declaration and of the commit currently in flight
    connection, declare_reply, commit_reply,
    \* what the last step did: the calls it issued on the channel, loop and
    \* connection, the message it published, the lines it logged, how it ended
    calls, published, logged, outcome,
    \* history: bytes written since the last batch boundary, the bytes of the
    \* batch that just reached its boundary, row-boundary signals and batch
    \* boundaries so far, publish calls so far, teardown steps so far
    written, batch_bytes, signals, boundaries, pub_total, teardown,
    \* history: publish calls since the loop was last pumped, and how often
    \* startTransaction and commitTransaction were requested on the channel
    since_pump, requested,
    \* a second producer that differs only in chunk_size and is fed the same
    \* writes and row-boundary signals: its chunk_size, its buffer, the
    \* payload it published in the last step, its publish calls so far
    twin

cfgvars == <<scenario, routing_key, exchange_name, num_queues, bind_by_id,
             use_transactional_channel, delim, max_rows, chunk_size>>
bufvars == <<rows, chunks, working_buffer_size, pos>>
routevars == <<next_queue, message_counter>>
localvars == <<cnt_retries, exchange_declared, exchange_error, answer_received,
               count_retries>>
envvars == <<connection, declare_reply, commit_reply>>
histvars == <<written, batch_bytes, signals, boundaries, pub_total>>
vars == <<cfgvars, bufvars, routevars, pc, ret, localvars, envvars,
          calls, published, logged, outcome, histvars, teardown, since_pump,
          requested, twin>>

(***************************************************************************)
(* Helpers.                                                                *)
(***************************************************************************)
Min(a, b) == IF a < b THEN a ELSE b

\* all strings over S of length 0..n
StringsUpTo(S, n) == UNION {[1..k -> S] : k \in 0..n}

RECURSIVE Flatten(_)
Flatten(ss) == IF ss = <<>> THEN <<>> ELSE Head(ss) \o Flatten(Tail(ss))

\* std::to_string of an unsigned number: its decimal digits
Digit(d) ==
    CASE d = 0 -> "0" [] d = 1 -> "1" [] d = 2 -> "2" [] d = 3 -> "3"
      [] d = 4 -> "4" [] d = 5 -> "5" [] d = 6 -> "6" [] d = 7 -> "7"
      [] d = 8 -> "8" [] d = 9 -> "9"

RECURSIVE to_string(_)
to_string(n) ==
    IF n < 10 THEN Digit(n) ELSE to_string(n \div 10) \o Digit(n % 10)

(***************************************************************************)
(* The chunked row buffer.  A buffer is [rows, chunks, size, pos]: the row *)
(* counter, the chunk list, and the base class's working buffer (size of   *)
(* the memory it points at, and the offset of pos in it).                  *)
(***************************************************************************)
\* member initialisers of the class declaration
MemberInit == [rows |-> 0, next_queue |-> 0, message_counter |-> 0]

\* WriteBuffer(nullptr, 0): no working buffer, no chunk
EmptyBuffer(r) == [rows |-> r, chunks |-> <<>>, size |-> 0, pos |-> 0]

\* nextImpl(): push a chunk resized to chunk_size, point the working buffer
\* at it
nextImpl(b, cs) ==
    [b EXCEPT !.chunks = Append(b.chunks, [i \in 1..cs |-> Fill]),
              !.size = cs,
              !.pos = 0]

\* WriteBuffer::write(from, n): copy into the working buffer, asking the
\* subclass for the next chunk whenever the working buffer is exhausted
RECURSIVE write(_, _, _)
write(b, cs, bytes) ==
    IF bytes = <<>> THEN b
    ELSE IF b.pos = b.size THEN write(nextImpl(b, cs), cs, bytes)
    ELSE LET n == Len(b.chunks)
             k == Min(b.size - b.pos, Len(bytes))
             copied == [i \in 1..b.size |->
                          IF i > b.pos /\ i <= b.pos + k
                          THEN bytes[i - b.pos] ELSE b.chunks[n][i]]
         IN write([b EXCEPT !.chunks[n] = copied, !.pos = b.pos + k],
                  cs, SubSeq(bytes, k + 1, Len(bytes)))

\* ++rows % max_rows == 0
AtBoundary(r, mr) == r % mr = 0

\* size_t last_chunk_size = offset(); one less if the last byte is the
\* delimiter
last_chunk_size(b, d) ==
    IF d # NoDelim /\ b.chunks[Len(b.chunks)][b.pos] = d
    THEN b.pos - 1 ELSE b.pos

\* payload with the last chunk appended in full, as if it were not cut to
\* last_chunk_size
payload_whole_last_chunk(b, d) == Flatten(b.chunks)

\* the payload: every chunk but the last in full, then the last chunk cut
\* to last_chunk_size
payload(b, d) ==
    Flatten(SubSeq(b.chunks, 1, Len(b.chunks) - 1))
        \o SubSeq(b.chunks[Len(b.chunks)], 1, last_chunk_size(b, d))

\* Cleared without chunks.clear()
Cleared_keeps_chunks(b) == [b EXCEPT !.rows = 0]

\* rows = 0; chunks.clear(); set(nullptr, 0)
Cleared(b) == [rows |-> 0, chunks |-> <<>>, size |-> 0, pos |-> 0]

\* The buffer's part of countRow().  kind is "none" (no batch boundary),
\* "publish" (a payload was assembled and the buffer cleared) or "empty"
\* (the boundary was reached with no chunk: chunks.back() of an empty list,
\* and a reserve() of a size_t that wrapped below zero).
countRowBuffer(b, mr, d) ==
    LET r == b.rows + 1 IN
    IF ~AtBoundary(r, mr)
    THEN [kind |-> "none", buf |-> [b EXCEPT !.rows = r], payload |-> <<>>]
    ELSE IF b.chunks = <<>>
    THEN [kind |-> "empty", buf |-> [b EXCEPT !.rows = r], payload |-> <<>>]
    ELSE [kind |-> "publish", buf |-> Cleared([b EXCEPT !.rows = r]),
          payload |-> payload(b, d)]

\* NextQueue with the increment inside the modulo
NextQueue_zero_based(nq, n) == (nq + 1) % n

\* next_queue = next_queue % num_queues + 1
NextQueue(nq, n) == (nq % n) + 1

\* RoutingKey that formats the queue id in either mode
RoutingKey_always_id(nq) == to_string(nq)

\* the routing key of a publish: the queue id as a string, or routing_key
RoutingKey(nq) == IF bind_by_id THEN to_string(nq) ELSE routing_key

\* NextMessageCounter without the wrap at Batch
NextMessageCounter_no_wrap(mc) == mc + 1

\* ++message_counter; message_counter %= Batch
NextMessageCounter(mc) == (mc + 1) % Batch

\* SetupContinues without the retry ceiling
SetupContinues_no_ceiling(ready, cnt) == ~ready

\* while (!connection->ready() && ++cnt_retries != Loop_retries_max)
SetupCounter(ready, cnt) == IF ready THEN cnt ELSE cnt + 1
SetupContinues(ready, cnt) == ~ready /\ SetupCounter(ready, cnt) # Loop_retries_max

\* CheckContinues that never waits
CheckContinues_no_wait(declared, error) == FALSE

\* CheckContinues that waits for success only
CheckContinues_ignores_error(declared, error) == ~declared

\* while (!exchange_declared && !exchange_error)
CheckContinues(declared, error) == ~declared /\ ~error

\* CommitContinues without the retry ceiling
CommitContinues_no_ceiling(answered, cnt) == ~answered

\* while (!answer_received && ++count_retries != Loop_retries_max)
CommitCounter(answered, cnt) == IF answered THEN cnt ELSE cnt + 1
CommitContinues(answered, cnt) ==
    ~answered /\ CommitCounter(answered, cnt) # Loop_retries_max

\* StartTransactionCalls without the test of the mode
StartTransactionCalls_unconditional(transactional) == <<"startTransaction">>

\* if (use_transactional_channel) producer_channel->startTransaction()
StartTransactionCalls(transactional) ==
    IF transactional THEN <<"startTransaction">> ELSE <<>>

\* the request counts after a step that issued the calls cs
Requested(rq, cs) ==
    [c \in DOMAIN rq |-> rq[c] + Cardinality({i \in DOMAIN cs : cs[i] = c})]

\* DestructorOrder with the event-loop driver stopped before the close
DestructorOrder_stop_first == <<"finalize", "stop", "close", "assert">>

\* the destructor's statements in order
DestructorOrder == <<"finalize", "close", "stop", "assert">>
StepAfter(s) ==
    LET i == CHOOSE j \in 1..Len(DestructorOrder) : DestructorOrder[j] = s
    IN DestructorOrder[i + 1]

(***************************************************************************)
(* The broker side.                                                        *)
(***************************************************************************)
\* In the lifecycle scenario the broker may answer late or never; in the
\* others every pump delivers what is pending.
Prompt == scenario # "lifecycle"

\* the fate of a passive declaration, fixed when it is requested: it will
\* resolve with onSuccess, with onError, or never
DeclareFates ==
    IF Prompt THEN {"ok", "error"}
    ELSE IF connection = "never" THEN {"error", "never"}
    ELSE {"ok", "error", "never"}

\* the fate of a commit
CommitFates == IF Prompt THEN {"ok", "error"} ELSE {"ok", "error", "never"}

\* whether this pump delivers a pending callback
Deliveries(reply) ==
    IF reply \in {"ok", "error"} THEN (IF Prompt THEN {TRUE} ELSE BOOLEAN)
    ELSE {FALSE}

\* the connection after a pump
ConnectionAfterPump ==
    IF connection = "pending"
    THEN (IF Prompt THEN {"ready"} ELSE {"pending", "ready"})
    ELSE {connection}

(***************************************************************************)
(* Exploration caps per scenario.                                          *)
(***************************************************************************)
ByteCap == IF scenario = "payload" THEN MaxBatchBytes ELSE 1
WriteBytesOf == IF scenario = "payload" THEN Bytes ELSE {97}
SignalCap ==
    CASE scenario = "payload" -> MaxSignals
      [] scenario = "routing" -> 2 * num_queues + ExtraSignals
      [] scenario = "lifecycle" -> 1
      [] scenario = "longrun" -> Batch + LongExtra

(***************************************************************************)
(* Construction.                                                           *)
(***************************************************************************)
NoPayload == <<-1>>

\* the producer's buffer as one value, and its assignment
Buf == [rows |-> rows, chunks |-> chunks, size |-> working_buffer_size,
        pos |-> pos]
SetBuf(b) ==
    /\ rows' = b.rows
    /\ chunks' = b.chunks
    /\ working_buffer_size' = b.size
    /\ pos' = b.pos

\* the constructor arguments explored in each scenario:
\* <<max_rows, chunk_size, twin's chunk_size, delim, num_queues, bind_by_id,
\*   use_transactional_channel>>
Arguments(sc) ==
    CASE sc = "payload" ->
           (1..MaxRows) \X (1..MaxChunk) \X (1..MaxChunk) \X Delims
               \X {1} \X {FALSE} \X {FALSE}
      [] sc = "routing" ->
           {1} \X {1} \X {MaxChunk} \X {NoDelim}
               \X (1..MaxQueues) \X BOOLEAN \X {FALSE}
      [] sc = "lifecycle" ->
           {1} \X {1} \X {MaxChunk} \X {59}
               \X {1} \X {FALSE} \X BOOLEAN
      [] sc = "longrun" ->
           {1} \X {1} \X {MaxChunk} \X {NoDelim}
               \X {MaxQueues} \X {TRUE} \X {FALSE}

\* The member-initialiser list of the constructor, up to its first statement.
Init ==
    /\ scenario \in {"payload", "routing", "lifecycle", "longrun"}
    /\ \E a \in Arguments(scenario) :
         /\ max_rows = a[1]
         /\ chunk_size = a[2]
         /\ twin = [chunk_size |-> a[3], buf |-> EmptyBuffer(MemberInit.rows),
                    out |-> NoPayload, pubs |-> 0]
         /\ delim = a[4]
         /\ num_queues = a[5]
         /\ bind_by_id = a[6]
         /\ use_transactional_channel = a[7]
    /\ routing_key = "rk"
    /\ exchange_name = "ex" \o "_direct"
    /\ rows = MemberInit.rows
    /\ chunks = EmptyBuffer(0).chunks
    /\ working_buffer_size = EmptyBuffer(0).size
    /\ pos = EmptyBuffer(0).pos
    /\ next_queue = MemberInit.next_queue
    /\ message_counter = MemberInit.message_counter
    /\ pc = "ctor"
    /\ ret = "none"
    /\ cnt_retries = 0
    /\ exchange_declared = FALSE
    /\ exchange_error = FALSE
    /\ answer_received = FALSE
    /\ count_retries = 0
    /\ connection \in (IF scenario = "lifecycle" THEN {"pending", "never"}
                       ELSE {"pending"})
    /\ declare_reply = "none"
    /\ commit_reply = "none"
    /\ calls = <<>>
    /\ published = NoPublish
    /\ logged = <<>>
    /\ outcome = "none"
    /\ written = <<>>
    /\ batch_bytes = <<>>
    /\ signals = 0
    /\ boundaries = 0
    /\ pub_total = 0
    /\ teardown = <<>>
    /\ since_pump = 0
    /\ requested = [startTransaction |-> 0, commitTransaction |-> 0]

\* DeclareExchange whose callback fires while it is being registered
DeclareExchange_resolves_at_once(caller, fate) ==
    /\ exchange_declared' = (fate = "ok")
    /\ exchange_error' = (fate = "error")
    /\ declare_reply' = IF fate = "never" THEN fate ELSE "none"
    /\ pc' = "checkExchange"
    /\ ret' = caller

\* checkExchange() up to its loop: fresh flags and a passive declaration
\* whose fate the broker decides
DeclareExchange(caller, fate) ==
    /\ exchange_declared' = FALSE
    /\ exchange_error' = FALSE
    /\ declare_reply' = fate
    /\ pc' = "checkExchange"
    /\ ret' = caller

\* One turn of the constructor's setup loop: the connection is not ready and
\* the ceiling is not reached, so the loop is pumped (uv_run NOWAIT) and the
\* thread sleeps.
ConstructorPump ==
    /\ pc = "ctor"
    /\ SetupContinues(connection = "ready", cnt_retries)
    /\ cnt_retries < Loop_retries_max + RetrySlack
    /\ cnt_retries' = SetupCounter(connection = "ready", cnt_retries)
    /\ connection' \in ConnectionAfterPump
    /\ calls' = <<"uv_run">>
    /\ published' = NoPublish
    /\ logged' = <<>>
    /\ outcome' = "polling"
    /\ batch_bytes' = <<>>
    /\ since_pump' = 0
    /\ UNCHANGED <<cfgvars, requested,
                   bufvars, routevars, pc, ret, exchange_declared,
                   exchange_error, answer_received, count_retries,
                   declare_reply, commit_reply, written, signals, boundaries,
                   pub_total, teardown, twin>>

\* The setup loop ends (ready, or ceiling reached): log if not ready, open the
\* channel, and enter checkExchange().
ConstructorProceed ==
    /\ pc = "ctor"
    /\ ~SetupContinues(connection = "ready", cnt_retries)
    /\ cnt_retries' = SetupCounter(connection = "ready", cnt_retries)
    /\ logged' = IF connection # "ready"
                 THEN <<"Cannot set up connection for producer!">> ELSE <<>>
    /\ outcome' = IF connection # "ready" THEN "not_connected" ELSE "connected"
    /\ calls' = <<"TcpChannel", "declareExchange">>
    /\ \E fate \in DeclareFates : DeclareExchange("ctor", fate)
    /\ published' = NoPublish
    /\ batch_bytes' = <<>>
    /\ UNCHANGED <<cfgvars, since_pump, requested,
                   bufvars, routevars, answer_received, count_retries,
                   connection, commit_reply, written, signals, boundaries,
                   pub_total, teardown, twin>>

(***************************************************************************)
(* checkExchange(): the wait loop and the return to each caller.           *)
(***************************************************************************)
\* startEventLoop() inside the wait loop; the broker may deliver the
\* declaration's callback during the pump.
CheckExchangePump ==
    /\ pc = "checkExchange"
    /\ CheckContinues(exchange_declared, exchange_error)
    /\ \E deliver \in Deliveries(declare_reply) :
         /\ exchange_declared' = (deliver /\ declare_reply = "ok")
         /\ exchange_error' = (deliver /\ declare_reply = "error")
         /\ declare_reply' = IF deliver THEN "none" ELSE declare_reply
         /\ logged' = IF deliver /\ declare_reply = "error"
                      THEN <<"Exchange for INSERT query was not declared">>
                      ELSE <<>>
         /\ outcome' = IF ~deliver THEN "waiting"
                       ELSE IF declare_reply = "ok" THEN "declared"
                       ELSE "declare_error"
    /\ connection' \in ConnectionAfterPump
    /\ calls' = <<"startProducerLoop">>
    /\ published' = NoPublish
    /\ batch_bytes' = <<>>
    /\ since_pump' = 0
    /\ UNCHANGED <<cfgvars, requested,
                   bufvars, routevars, pc, ret, cnt_retries,
                   answer_received, count_retries, commit_reply, written,
                   signals, boundaries, pub_total, teardown, twin>>

\* the flags of a finished checkExchange() go out of scope
CheckExchangeLeave ==
    /\ pc = "checkExchange"
    /\ ~CheckContinues(exchange_declared, exchange_error)
    /\ exchange_declared' = FALSE
    /\ exchange_error' = FALSE
    /\ ret' = "none"
    /\ published' = NoPublish
    /\ logged' = <<>>
    /\ batch_bytes' = <<>>

\* back in the constructor: start the transaction if asked to, and return
ConstructorReturn ==
    /\ ret = "ctor"
    /\ CheckExchangeLeave
    /\ calls' = StartTransactionCalls(use_transactional_channel)
    /\ requested' = Requested(requested, calls')
    /\ pc' = "ready"
    /\ cnt_retries' = 0
    /\ outcome' = "constructed"
    /\ UNCHANGED <<cfgvars, since_pump, bufvars, routevars, answer_received,
                   count_retries, envvars, written, signals, boundaries, pub_total, teardown,
                   twin>>

\* back in countRow(), which returns
CountRowReturn ==
    /\ ret = "countRow"
    /\ CheckExchangeLeave
    /\ calls' = <<>>
    /\ pc' = "ready"
    /\ outcome' = "ok"
    /\ UNCHANGED <<cfgvars, since_pump, requested,
                   bufvars, routevars, cnt_retries, answer_received,
                   count_retries, envvars, written, signals, boundaries,
                   pub_total, teardown, twin>>

(***************************************************************************)
(* finilizeProducer() after its checkExchange(), and the destructor.       *)
(***************************************************************************)
\* transactional: request the commit and enter the bounded wait
FinalizeCommit ==
    /\ ret = "finalize"
    /\ use_transactional_channel
    /\ CheckExchangeLeave
    /\ calls' = <<"commitTransaction">>
    /\ requested' = Requested(requested, calls')
    /\ answer_received' = FALSE
    /\ count_retries' = 0
    /\ commit_reply' \in CommitFates
    /\ pc' = "commit_wait"
    /\ outcome' = "committing"
    /\ UNCHANGED <<cfgvars, since_pump,
                   bufvars, routevars, cnt_retries, connection,
                   declare_reply, written, signals, boundaries, pub_total,
                   teardown, twin>>

\* not transactional: finilizeProducer() returns to the destructor
FinalizeReturn ==
    /\ ret = "finalize"
    /\ ~use_transactional_channel
    /\ CheckExchangeLeave
    /\ calls' = <<>>
    /\ pc' = StepAfter("finalize")
    /\ teardown' = Append(teardown, "finalize")
    /\ outcome' = "finalized"
    /\ UNCHANGED <<cfgvars, since_pump, requested,
                   bufvars, routevars, cnt_retries, answer_received,
                   count_retries, envvars, written, signals, boundaries,
                   pub_total, twin>>

\* One turn of the commit wait: no answer yet and the ceiling is not reached,
\* so the loop is pumped and the thread sleeps.
CommitWaitPump ==
    /\ pc = "commit_wait"
    /\ CommitContinues(answer_received, count_retries)
    /\ count_retries < Loop_retries_max + RetrySlack
    /\ count_retries' = CommitCounter(answer_received, count_retries)
    /\ \E deliver \in Deliveries(commit_reply) :
         /\ answer_received' = deliver
         /\ commit_reply' = IF deliver THEN "none" ELSE commit_reply
         /\ logged' = IF ~deliver THEN <<>>
                      ELSE IF commit_reply = "ok"
                      THEN <<"All messages were successfully published">>
                      ELSE <<"None of messages were publishd">>
    /\ connection' \in ConnectionAfterPump
    /\ calls' = <<"startProducerLoop">>
    /\ published' = NoPublish
    /\ outcome' = "waiting"
    /\ batch_bytes' = <<>>
    /\ since_pump' = 0
    /\ UNCHANGED <<cfgvars, requested,
                   bufvars, routevars, pc, ret, cnt_retries,
                   exchange_declared, exchange_error, declare_reply, written,
                   signals, boundaries, pub_total, teardown, twin>>

\* The commit wait ends (answered, or ceiling reached) and finilizeProducer()
\* returns to the destructor.
CommitWaitReturn ==
    /\ pc = "commit_wait"
    /\ ~CommitContinues(answer_received, count_retries)
    /\ count_retries' = CommitCounter(answer_received, count_retries)
    /\ outcome' = IF answer_received THEN "commit_answered"
                  ELSE "commit_timeout"
    /\ pc' = StepAfter("finalize")
    /\ teardown' = Append(teardown, "finalize")
    /\ calls' = <<>>
    /\ published' = NoPublish
    /\ logged' = <<>>
    /\ batch_bytes' = <<>>
    /\ UNCHANGED <<cfgvars, since_pump, requested,
                   bufvars, routevars, ret, cnt_retries,
                   exchange_declared, exchange_error, answer_received,
                   envvars, written, signals, boundaries, pub_total, twin>>

\* The destructor's first statement: finilizeProducer(), which begins with
\* checkExchange().  The destructor runs when the caller is done, or while
\* the exception of a failed countRow() unwinds the caller.
Destroy ==
    /\ pc \in {"ready", "unwinding"}
    /\ calls' = <<"declareExchange">>
    /\ \E fate \in DeclareFates : DeclareExchange("finalize", fate)
    /\ published' = NoPublish
    /\ logged' = <<>>
    /\ outcome' = "finalizing"
    /\ batch_bytes' = <<>>
    /\ UNCHANGED <<cfgvars, since_pump, requested,
                   bufvars, routevars, cnt_retries, answer_received,
                   count_retries, connection, commit_reply, written, signals,
                   boundaries, pub_total, teardown, twin>>

\* connection->close()
Close ==
    /\ pc = "close"
    /\ connection' = "closed"
    /\ calls' = <<"close">>
    /\ teardown' = Append(teardown, "close")
    /\ pc' = StepAfter("close")
    /\ answer_received' = FALSE
    /\ count_retries' = 0
    /\ published' = NoPublish
    /\ logged' = <<>>
    /\ outcome' = "closed"
    /\ batch_bytes' = <<>>
    /\ UNCHANGED <<cfgvars, since_pump, requested,
                   bufvars, routevars, ret, cnt_retries,
                   exchange_declared, exchange_error, declare_reply,
                   commit_reply, written, signals, boundaries, pub_total, twin>>

\* event_handler->stop()
Stop ==
    /\ pc = "stop"
    /\ calls' = <<"stop">>
    /\ teardown' = Append(teardown, "stop")
    /\ pc' = StepAfter("stop")
    /\ published' = NoPublish
    /\ logged' = <<>>
    /\ outcome' = "stopped"
    /\ batch_bytes' = <<>>
    /\ UNCHANGED <<cfgvars, since_pump, requested,
                   bufvars, routevars, ret, localvars, envvars,
                   written, signals, boundaries, pub_total, twin>>

\* assert(rows == 0 && chunks.empty()): aborts a build with assertions, and
\* is no statement at all in a build without them
DestructorAssert ==
    /\ pc = "assert"
    /\ \E assertions \in BOOLEAN :
         /\ outcome' = IF rows = 0 /\ chunks = <<>> THEN "destroyed"
                       ELSE IF assertions THEN "assertion_failed"
                       ELSE "destroyed_nonempty"
         /\ pc' = IF (rows = 0 /\ chunks = <<>>) \/ ~assertions THEN "done"
                  ELSE "aborted"
    /\ calls' = <<>>
    /\ published' = NoPublish
    /\ logged' = <<>>
    /\ batch_bytes' = <<>>
    /\ UNCHANGED <<cfgvars, since_pump, requested,
                   bufvars, routevars, ret, localvars, envvars,
                   written, signals, boundaries, pub_total, teardown, twin>>

(***************************************************************************)
(* The byte sink: write() and countRow().                                  *)
(***************************************************************************)
\* write(bytes), any bytes in any split
Write ==
    /\ pc = "ready"
    /\ \E bytes \in StringsUpTo(WriteBytesOf,
                               Min(MaxWrite, ByteCap - Len(written))) :
         /\ SetBuf(write(Buf, chunk_size, bytes))
         /\ twin' = [twin EXCEPT !.buf = write(twin.buf, twin.chunk_size, bytes),
                                 !.out = NoPayload]
         /\ written' = written \o bytes
    /\ calls' = <<>>
    /\ published' = NoPublish
    /\ logged' = <<>>
    /\ outcome' = "ok"
    /\ batch_bytes' = <<>>
    /\ UNCHANGED <<cfgvars, since_pump, requested,
                   routevars, pc, ret, localvars, envvars, signals,
                   boundaries, pub_total, teardown>>

\* what the twin does on the same row-boundary signal
TwinCountRow ==
    LET t == countRowBuffer(twin.buf, max_rows, delim)
    IN [twin EXCEPT !.buf = t.buf,
                    !.out = IF t.kind = "publish" THEN t.payload
                            ELSE NoPayload,
                    !.pubs = IF t.kind = "publish" THEN @ + 1 ELSE @]

\* countRow() short of a batch boundary: only the row counter moves
CountRowOnly ==
    /\ pc = "ready"
    /\ signals < SignalCap
    /\ countRowBuffer(Buf, max_rows, delim).kind = "none"
    /\ SetBuf(countRowBuffer(Buf, max_rows, delim).buf)
    /\ twin' = TwinCountRow
    /\ signals' = signals + 1
    /\ calls' = <<>>
    /\ published' = NoPublish
    /\ logged' = <<>>
    /\ outcome' = "ok"
    /\ batch_bytes' = <<>>
    /\ UNCHANGED <<cfgvars, since_pump, requested,
                   routevars, pc, ret, localvars, envvars, written,
                   boundaries, pub_total, teardown>>

\* countRow() at a batch boundary with at least one chunk: assemble the
\* payload, clear the buffer, publish, and every Batch-th message enter
\* checkExchange().
CountRowPublish ==
    /\ pc = "ready"
    /\ signals < SignalCap
    /\ countRowBuffer(Buf, max_rows, delim).kind = "publish"
    /\ SetBuf(countRowBuffer(Buf, max_rows, delim).buf)
    /\ next_queue' = NextQueue(next_queue, num_queues)
    /\ published' = [exchange |-> exchange_name,
                     key |-> RoutingKey(next_queue'),
                     payload |-> countRowBuffer(Buf, max_rows, delim).payload]
    /\ message_counter' = NextMessageCounter(message_counter)
    /\ IF message_counter' = 0
       THEN /\ calls' = <<"publish", "declareExchange">>
            /\ \E fate \in DeclareFates : DeclareExchange("countRow", fate)
       ELSE /\ calls' = <<"publish">>
            /\ UNCHANGED <<pc, ret, exchange_declared, exchange_error,
                           declare_reply>>
    /\ twin' = TwinCountRow
    /\ signals' = signals + 1
    /\ boundaries' = boundaries + 1
    /\ pub_total' = pub_total + 1
    /\ batch_bytes' = written
    /\ written' = <<>>
    /\ logged' = <<>>
    /\ outcome' = "published"
    /\ since_pump' = since_pump + 1
    /\ UNCHANGED <<cfgvars, requested,
                   cnt_retries, answer_received, count_retries,
                   connection, commit_reply, teardown>>

\* countRow() at a batch boundary with no chunk at all.  chunks.back() of an
\* empty list is undefined, and the size handed to reserve() wrapped below
\* zero: the call ends in std::length_error, which unwinds the caller, or the
\* process dies on the read through the dangling reference.
CountRowEmpty ==
    /\ pc = "ready"
    /\ signals < SignalCap
    /\ countRowBuffer(Buf, max_rows, delim).kind = "empty"
    /\ SetBuf(countRowBuffer(Buf, max_rows, delim).buf)
    /\ \E o \in {"length_error", "segfault"} :
         /\ outcome' = o
         /\ pc' = IF o = "segfault" THEN "crashed" ELSE "unwinding"
    /\ twin' = TwinCountRow
    /\ signals' = signals + 1
    /\ boundaries' = boundaries + 1
    /\ batch_bytes' = written
    /\ written' = <<>>
    /\ calls' = <<>>
    /\ published' = NoPublish
    /\ logged' = <<>>
    /\ UNCHANGED <<cfgvars, since_pump, requested,
                   routevars, ret, localvars, envvars, pub_total,
                   teardown>>

(***************************************************************************)
(* Specifications.                                                         *)
(***************************************************************************)
Next ==
    \/ ConstructorPump
    \/ ConstructorProceed
    \/ CheckExchangePump
    \/ ConstructorReturn
    \/ CountRowReturn
    \/ FinalizeCommit
    \/ FinalizeReturn
    \/ CommitWaitPump
    \/ CommitWaitReturn
    \/ Write
    \/ CountRowOnly
    \/ CountRowPublish
    \/ CountRowEmpty
    \/ Destroy
    \/ Close
    \/ Stop
    \/ DestructorAssert

Spec == Init /\ [][Next]_vars

\* Inside a call the single calling thread keeps running: every loop turn and
\* every statement after it is eventually executed.  Nothing obliges the
\* caller to call write(), countRow() or the destructor.
InCall ==
    \/ ConstructorPump
    \/ ConstructorProceed
    \/ CheckExchangePump
    \/ ConstructorReturn
    \/ CountRowReturn
    \/ FinalizeCommit
    \/ FinalizeReturn
    \/ CommitWaitPump
    \/ CommitWaitReturn
    \/ Close
    \/ Stop
    \/ DestructorAssert

FairSpec == Init /\ [][Next]_vars /\ WF_vars(InCall)

(***************************************************************************)
(* Properties.                                                             *)
(***************************************************************************)
\* what a message must hold for a batch whose written bytes are b: all of
\* them, less one trailing byte if a delimiter is configured and that byte
\* equals it
Expected(b, d) ==
    IF d # NoDelim /\ b # <<>> /\ b[Len(b)] = d
    THEN SubSeq(b, 1, Len(b) - 1) ELSE b

\* the last step was the countRow() that reached a batch boundary
AfterBoundary == outcome \in {"published", "length_error", "segfault"}

\* the decimal routing keys "1", "2", ...
KeyTable == <<"1", "2", "3", "4", "5", "6", "7", "8", "9">>

\* C1: writes followed by exactly max_rows row-boundary signals publish
\* exactly one message, whose payload is the written bytes less one trailing
\* delimiter byte - also when no byte was written.
C1_OneMessagePerFirstBatch ==
    (AfterBoundary /\ signals = max_rows)
        => /\ pub_total = 1
           /\ published.payload = Expected(batch_bytes, delim)

\* C1 for batches that hold at least one byte (the part of C1 that holds)
NonEmptyBatchIsPublished ==
    (AfterBoundary /\ batch_bytes # <<>>)
        => /\ outcome = "published"
           /\ published.payload = Expected(batch_bytes, delim)

\* C2: a producer that differs only in chunk_size and receives the same
\* writes and row-boundary signals publishes the same payloads in the same
\* order: it publishes in exactly the same steps, and the same payload.
C2_ChunkSizeIndependent ==
    /\ twin.pubs = pub_total
    /\ outcome = "published" => twin.out = published.payload

C2_Witness ==
    /\ outcome = "published"
    /\ twin.chunk_size # chunk_size
    /\ Len(published.payload) > chunk_size
    /\ pub_total = 2

\* C3: after k*max_rows rows exactly k messages have been published, a
\* message is published only at a multiple of max_rows, and the message of
\* each batch holds exactly that batch's bytes less one trailing delimiter.
C3_EveryBatchOneMessage ==
    /\ published # NoPublish => signals % max_rows = 0
    /\ AfterBoundary
           => /\ signals = boundaries * max_rows
              /\ pub_total = boundaries
              /\ published.payload = Expected(batch_bytes, delim)

\* C4: after every countRow() that publishes, rows = 0 and the chunk
\* sequence is empty.
C4_EmptyAfterEmission ==
    outcome = "published" => rows = 0 /\ chunks = <<>>

C4_Witness ==
    /\ outcome = "published"
    /\ pub_total = 2
    /\ Len(batch_bytes) > chunk_size

\* C5: with id-based routing, the i-th published message since construction
\* has routing key ((i - 1) mod num_queues) + 1 in decimal.
C5_RoutingRotation ==
    (bind_by_id /\ outcome = "published")
        => published.key = KeyTable[((pub_total - 1) % num_queues) + 1]

\* a publish after a full rotation and after the exchange check of the
\* Batch-th message
C5_Witness ==
    /\ bind_by_id
    /\ outcome = "published"
    /\ num_queues = MaxQueues
    /\ pub_total > Batch
    /\ published.key = KeyTable[(Batch % MaxQueues) + 1]

\* finilizeProducer() has returned to the destructor
FinalizeReturned == teardown # <<>>

C7_ErrorEndsCheckExchange ==
    /\ [][(pc = "checkExchange" /\ (exchange_error \/ exchange_declared))
              => pc' # "checkExchange"]_vars
    /\ [][(exchange_error' /\ ~exchange_error)
              => /\ logged' = <<"Exchange for INSERT query was not declared">>
                 /\ ~exchange_declared']_vars
    /\ [][(exchange_declared' /\ ~exchange_declared)
              => logged' = <<>> /\ ~exchange_error']_vars
    /\ ((pc = "checkExchange" /\ declare_reply = "error")
            ~> pc # "checkExchange")

\* the error callback has fired inside checkExchange()
C7_Witness ==
    /\ pc = "checkExchange"
    /\ exchange_error
    /\ outcome = "declare_error"

\* C8: when the connection never reports ready, the constructor still
\* returns control to the caller.
C8_ConstructionReturns ==
    (pc = "ctor" /\ connection = "never") ~> pc = "ready"

\* the part of C8 that holds: the setup polling stops at the ceiling and
\* logs the error
SetupPollingIsBounded ==
    /\ cnt_retries <= Loop_retries_max
    /\ outcome = "not_connected"
           => /\ cnt_retries = Loop_retries_max
              /\ logged = <<"Cannot set up connection for producer!">>

\* C9: messages are handed to publish in the order in which rows complete
\* batches, none reordered, duplicated or omitted: the step that completes
\* the i-th batch is the step of the i-th publish call, which carries that
\* batch's bytes, and no other step publishes.
C9_PublishOrderIsBatchOrder ==
    /\ [][boundaries' # boundaries
              => /\ pub_total' = pub_total + 1
                 /\ pub_total' = boundaries'
                 /\ published'.payload = Expected(written, delim)]_vars
    /\ [][pub_total' # pub_total => boundaries' = boundaries + 1]_vars

\* the part of C9 that holds: every publish call is made by the step that
\* completes a batch, is the next in count, and carries that batch's bytes;
\* the pumps of an exchange check publish nothing
EveryPublishCarriesItsBatch ==
    [][pub_total' # pub_total
           => /\ boundaries' = boundaries + 1
              /\ pub_total' = pub_total + 1
              /\ pub_total' = boundaries'
              /\ published'.payload = Expected(written, delim)]_vars

\* C10: teardown runs finalize, then the connection close, then the stop of
\* the event-loop driver, and once the connection is closed no publish,
\* declaration, commit request or loop pump is issued.
C10_TeardownOrder ==
    /\ \E n \in 0..3 : teardown = SubSeq(<<"finalize", "close", "stop">>, 1, n)
    /\ connection = "closed"
           => /\ calls \in {<<>>, <<"close">>, <<"stop">>}
              /\ published = NoPublish
              /\ teardown # <<>>

\* a transactional producer torn down to the end
C10_Witness ==
    /\ pc = "done"
    /\ use_transactional_channel
    /\ teardown = <<"finalize", "close", "stop">>

\* C11: when the destructor reaches its assert after a number of
\* row-boundary signals that is a multiple of max_rows, rows is 0 and the
\* chunk list is empty.
C11_DestructorCheckHolds ==
    (pc = "assert" /\ signals % max_rows = 0)
        => (rows = 0 /\ chunks = <<>>)

\* the part of C11 that holds: between calls, with every batch so far
\* handed to publish and no byte written since, the buffer is empty
EmptyWhenNothingPending ==
    (pc = "ready" /\ written = <<>> /\ signals % max_rows = 0)
        => (rows = 0 /\ chunks = <<>> /\ working_buffer_size = 0)

\* C12: on the publish path checkExchange() is entered by the publish of
\* every Batch-th message since construction and by no other publish, and
\* only by a publish; the message counter stays in 0..Batch-1 and counts
\* the publishes modulo Batch; at most Batch messages are published
\* between two loop pumps.
C12_CheckpointEveryBatch ==
    /\ [](message_counter \in 0..(Batch - 1))
    /\ [](message_counter = pub_total % Batch)
    /\ [](since_pump <= Batch)
    /\ [][pub_total' # pub_total
              => ((pc' = "checkExchange" /\ ret' = "countRow")
                      <=> pub_total' % Batch = 0)]_vars
    /\ [][(ret' = "countRow" /\ ret # "countRow")
              => (pub_total' = pub_total + 1 /\ calls'[1] = "publish")]_vars
    /\ [](ret = "countRow" => (since_pump = 0 \/ since_pump = Batch))

\* the Batch-th message was just published and countRow() entered
\* checkExchange(), with Batch messages unpumped
C12_Witness ==
    /\ pub_total = Batch
    /\ outcome = "published"
    /\ pc = "checkExchange"
    /\ ret = "countRow"
    /\ since_pump = Batch

\* the constructor has not yet returned
InConstruction == pc = "ctor" \/ (pc = "checkExchange" /\ ret = "ctor")

\* C13: in transactional mode startTransaction is requested once, by the
\* constructor after its exchange check and before any publish, and
\* commitTransaction once, by finilizeProducer() after its exchange check
\* and after every publish; in non-transactional mode neither is ever
\* requested.
C13_TransactionLifecycle ==
    /\ [](~use_transactional_channel
              => requested = [startTransaction |-> 0, commitTransaction |-> 0])
    /\ [](use_transactional_channel
              => /\ requested.startTransaction
                        = (IF InConstruction THEN 0 ELSE 1)
                 /\ requested.commitTransaction
                        = (IF pc = "commit_wait" \/ FinalizeReturned
                           THEN 1 ELSE 0))
    /\ [][requested'.startTransaction # requested.startTransaction
              => (InConstruction /\ pc' = "ready" /\ pub_total = 0)]_vars
    /\ [][requested'.commitTransaction # requested.commitTransaction
              => /\ pc = "checkExchange" /\ ret = "finalize"
                 /\ exchange_declared \/ exchange_error]_vars
    /\ [][pub_total' # pub_total
              => /\ requested.commitTransaction = 0
                 /\ requested.startTransaction
                        = (IF use_transactional_channel THEN 1 ELSE 0)
                 /\ requested' = requested]_vars

\* a transactional producer that published and was torn down to the end
C13_Witness ==
    /\ use_transactional_channel
    /\ pc = "done"
    /\ pub_total >= 1
    /\ requested = [startTransaction |-> 1, commitTransaction |-> 1]

\* C14: with routing-by-id disabled every publish call names the fixed
\* routing_key and the exchange_name of the instance, whatever next_queue is
\* and however many messages were published before.
C14_FixedRoutingKey ==
    (~bind_by_id /\ published # NoPublish)
        => /\ published.key = routing_key
           /\ published.exchange = exchange_name
           /\ next_queue \in 1..num_queues

\* a third-rotation publish with the fixed key while next_queue is back at 1
C14_Witness ==
    /\ ~bind_by_id
    /\ num_queues = MaxQueues
    /\ pub_total = 2 * num_queues + 1
    /\ next_queue = 1
    /\ published.key = routing_key

\* C15: each bounded wait pumps the loop at most Loop_retries_max times and
\* its counter never exceeds Loop_retries_max; a pump is made only while the
\* awaited condition does not hold, so the wait stops at the first check
\* that finds it; the wait is left as a timeout only with the condition
\* still false and the counter at the ceiling, and a condition that became
\* true during the last permitted pump is a success.
C15_BoundedWaits ==
    /\ [](cnt_retries <= Loop_retries_max /\ count_retries <= Loop_retries_max)
    /\ [][(pc = "ctor" /\ calls' = <<"uv_run">>)
              => /\ connection # "ready"
                 /\ cnt_retries' = cnt_retries + 1
                 /\ cnt_retries' < Loop_retries_max]_vars
    /\ [][(pc = "commit_wait" /\ calls' = <<"startProducerLoop">>)
              => /\ ~answer_received
                 /\ count_retries' = count_retries + 1
                 /\ count_retries' < Loop_retries_max]_vars
    /\ [][(pc = "ctor" /\ connection = "ready") => pc' # "ctor"]_vars
    /\ [][(pc = "commit_wait" /\ answer_received) => pc' # "commit_wait"]_vars
    /\ [](outcome = "connected" => (connection = "ready" /\ logged = <<>>))
    /\ [](outcome = "not_connected"
              => (connection # "ready" /\ cnt_retries = Loop_retries_max))
    /\ [](outcome = "commit_answered" => answer_received)
    /\ [](outcome = "commit_timeout"
              => (~answer_received /\ count_retries = Loop_retries_max))

\* the connection became ready during the last permitted pump of the setup
\* loop, and the constructor went on without logging the error
C15_Witness ==
    /\ outcome = "connected"
    /\ cnt_retries = Loop_retries_max - 1
    /\ logged = <<>>

\* the commit was answered during the last permitted pump of the wait
CommitAnsweredAtLastPump ==
    /\ outcome = "commit_answered"
    /\ count_retries = Loop_retries_max - 1

C17_LastChunkIsDefined ==
    [][(signals' = signals + 1 /\ AtBoundary(rows + 1, max_rows))
           => (chunks # <<>> /\ pos >= 1 /\ pos <= working_buffer_size)]_vars

\* the part of C17 that holds: a buffer with a chunk has a last chunk of
\* chunk_size bytes with at least one of them written, and a buffer that
\* holds bytes of the current batch has a chunk
LastChunkOfNonEmptyBuffer ==
    /\ chunks # <<>>
           => /\ pos >= 1 /\ pos <= working_buffer_size
              /\ working_buffer_size = chunk_size
              /\ Len(chunks[Len(chunks)]) = chunk_size
    /\ (pc = "ready" /\ written # <<>>) => chunks # <<>>

\* C18: no confirmation is delivered after the operation that registered
\* its callback has returned.  checkExchange() is left only with its own
\* declaration resolved, so none is in flight outside it; after
\* finilizeProducer() has returned the loop is not pumped again, and a
\* commit acknowledgment still in flight is never delivered.
C18_NoCallbackAfterReturn ==
    /\ [](pc # "checkExchange" => declare_reply = "none")
    /\ [][(pc = "checkExchange" /\ pc' # "checkExchange")
              => (exchange_declared \/ exchange_error)]_vars
    /\ [](FinalizeReturned
              => /\ calls \in {<<>>, <<"close">>, <<"stop">>}
                 /\ pc \notin {"checkExchange", "commit_wait"})
    /\ [][FinalizeReturned
              => /\ commit_reply' = commit_reply
                 /\ answer_received' => answer_received]_vars
    /\ [](pc # "commit_wait" /\ ~FinalizeReturned => commit_reply = "none")

\* torn down to the end with the commit's acknowledgment still in flight:
\* the wait ended at the ceiling and the reply was never delivered
C18_Witness ==
    /\ pc = "done"
    /\ commit_reply = "ok"
    /\ requested.commitTransaction = 1
    /\ ~answer_received

====
